---- MODULE Spec2Model ----
(***************************************************************************)
(* State-machine model of the CSRF middleware of middleware/csrf/csrf.go.  *)
(*                                                                         *)
(* New(config) builds the extractor from cfg.KeyLookup (or panics) and     *)
(* returns the per-request handler.  The handler is modelled as one atomic *)
(* action per request: bypass test, method switch (issue on GET, verify on *)
(* POST/DELETE/PATCH/PUT), Vary header, Locals slot, c.Next().             *)
(*                                                                         *)
(* Spec       requests of any client, one handler run at a time            *)
(* SpecClient one client that keeps the CSRF cookie it is sent             *)
(* SpecConc   two handler runs interleaved at their generator and store    *)
(*            calls                                                        *)
(*                                                                         *)
(* Strings that the code takes apart (KeyLookup, CookieName, header key)   *)
(* are sequences of one-character strings; tokens and other opaque values  *)
(* are TLA+ strings, "" being Go's empty string.                           *)
(***************************************************************************)
EXTENDS Integers, Sequences, FiniteSets, TLC

VARIABLES cfg, phase, extractor, store, issued, req, resp, client, threads

vars == <<cfg, phase, extractor, store, issued, req, resp, client, threads>>

(***************************************************************************)
(* Bounds                                                                  *)
(***************************************************************************)
\* number of tokens cfg.KeyGenerator() hands out in one behaviour
MaxIssued == 2

(***************************************************************************)
(* Character strings                                                       *)
(***************************************************************************)
LowerCase == <<"a","b","c","d","e","f","g","h","i","j","k","l","m",
               "n","o","p","q","r","s","t","u","v","w","x","y","z">>
UpperCase == <<"A","B","C","D","E","F","G","H","I","J","K","L","M",
               "N","O","P","Q","R","S","T","U","V","W","X","Y","Z">>

ToUpper(ch) ==
    IF \E i \in 1..Len(LowerCase) : LowerCase[i] = ch
    THEN UpperCase[CHOOSE i \in 1..Len(LowerCase) : LowerCase[i] = ch]
    ELSE ch

ToLower(ch) ==
    IF \E i \in 1..Len(UpperCase) : UpperCase[i] = ch
    THEN LowerCase[CHOOSE i \in 1..Len(UpperCase) : UpperCase[i] = ch]
    ELSE ch

\* strings.Split(s, sep) for a one-character separator
RECURSIVE Split(_, _)
Split(s, sep) ==
    IF \A i \in 1..Len(s) : s[i] # sep
    THEN <<s>>
    ELSE LET i == CHOOSE j \in 1..Len(s) :
                      s[j] = sep /\ \A k \in 1..(j - 1) : s[k] # sep
         IN  <<SubSeq(s, 1, i - 1)>> \o Split(SubSeq(s, i + 1, Len(s)), sep)

\* textproto.CanonicalMIMEHeaderKey on keys made of letters and "-":
\* the first letter and every letter after a "-" upper case, the rest lower
RECURSIVE Canon(_, _)
Canon(s, upper) ==
    IF s = <<>> THEN <<>>
    ELSE <<IF upper THEN ToUpper(Head(s)) ELSE ToLower(Head(s))>>
         \o Canon(Tail(s), Head(s) = "-")

CanonicalMIMEHeaderKey(s) == Canon(s, TRUE)

(***************************************************************************)
(* Configuration (the value of cfg after configDefault)                    *)
(***************************************************************************)
CsrfCookieName == <<"c","s","r","f","_">>

KeyLookups ==
    { <<"h","e","a","d","e","r",":","X","-","C","S","R","F">>,
      <<"q","u","e","r","y",":","k">>,
      <<"p","a","r","a","m",":","k">>,
      <<"f","o","r","m",":","k">>,
      <<"c","o","o","k","i","e",":","k">>,
      <<"b","o","d","y",":","x","-","k">>,
      <<":","k">>,
      <<"c","o","o","k","i","e",":","c","s","r","f","_">>,
      <<"h","e","a","d","e","r">>,
      <<"q","u","e","r","y",":","k",":","k">> }

ContextKeys == {"", "csrf"}

\* cfg.Next: no predicate, or a predicate that exempts one route
NextPredicates == {"nil", "exemptRoute"}

Configs ==
    [KeyLookup : KeyLookups, CookieName : {CsrfCookieName},
     ContextKey : ContextKeys, Next : NextPredicates]

(***************************************************************************)
(* Requests and responses                                                  *)
(***************************************************************************)
MethodGet     == "GET"
MethodHead    == "HEAD"
MethodPost    == "POST"
MethodPut     == "PUT"
MethodPatch   == "PATCH"
MethodDelete  == "DELETE"
MethodOptions == "OPTIONS"

Methods == {MethodGet, MethodHead, MethodPost, MethodPut, MethodPatch,
            MethodDelete, MethodOptions}

UnsafeMethods == {MethodPost, MethodDelete, MethodPatch, MethodPut}

Paths == {"/", "/exempt"}

Sources == {"header", "query", "param", "form", "cookie"}

\* cfg.KeyGenerator(): the n-th token it returns; no two calls collide
KeyGenerator(n) == <<"T1", "T2", "T3", "T4", "T5", "T6">>[n]

\* values a client may send: nothing, any token the generator can produce
\* (stolen or guessed), or a string the generator never produces
ClientValues == {""} \cup {KeyGenerator(n) : n \in 1..MaxIssued} \cup {"WRONG"}

\* a name/value map of the request (cookies, headers, ...) is a set of pairs;
\* c.Cookies, c.Get, c.Query, c.Params and c.FormValue return "" when the
\* name is absent
Lookup(map, name) ==
    IF \E p \in map : p[1] = name
    THEN (CHOOSE p \in map : p[1] = name)[2]
    ELSE ""

Entry(name, value) == IF value = "" THEN {} ELSE {<<name, value>>}

\* the request a client builds: the CSRF cookie it holds (may be none) and
\* one value submitted under the name `key` in one of the five locations;
\* the server's parser stores header names in canonical form
Request(method, path, cookie, src, key, value) ==
    [method  |-> method,
     path    |-> path,
     cookies |-> Entry(CsrfCookieName, cookie)
                 \cup (IF src = "cookie" THEN Entry(key, value) ELSE {}),
     header  |-> IF src = "header"
                 THEN Entry(CanonicalMIMEHeaderKey(key), value) ELSE {},
     query   |-> IF src = "query" THEN Entry(key, value) ELSE {},
     params  |-> IF src = "param" THEN Entry(key, value) ELSE {},
     form    |-> IF src = "form" THEN Entry(key, value) ELSE {}]

NoRequest == Request("", "", "", "header", <<>>, "")

\* the response as the handler leaves it: returned error, whether c.Next()
\* ran, cookies passed to c.Cookie, names passed to c.Vary, c.Locals slots
NoResponse ==
    [err |-> "nil", next |-> FALSE, cookies |-> {}, vary |-> {}, locals |-> {}]

\* fiber.Cookie: Expires is time.Now().Add(cfg.Expiration) ("future") or
\* time.Now().Add(-1 * time.Minute) ("past")
Cookie(name, value, expires) ==
    [name |-> name, value |-> value, expires |-> expires]

HeaderCookie == "Cookie"
ErrForbidden == "ErrForbidden"

(***************************************************************************)
(* Token store (cfg.Storage behind the per-request storage handle)         *)
(***************************************************************************)
\* store.set(token): records the token as valid
set(s, token) == s \cup {token}

\* store.get(token): whether the token is currently valid (present)
get(s, token) == token \in s

\* store.delete(token): removes the token; no error when it is absent
delete(s, token) == s \ {token}

(***************************************************************************)
(* New: extractor selection                                                *)
(***************************************************************************)
\* strings.Split(cfg.KeyLookup, ":")
selectors(c) == Split(c.KeyLookup, ":")

SrcForm   == <<"f","o","r","m">>
SrcQuery  == <<"q","u","e","r","y">>
SrcParam  == <<"p","a","r","a","m">>
SrcCookie == <<"c","o","o","k","i","e">>

\* New without the test of the cookie key against CookieName
NewPanicsNoCollision(c) == Len(selectors(c)) # 2

\* the two panics of New
NewPanics(c) ==
    \/ Len(selectors(c)) # 2
    \/ /\ selectors(c)[1] = SrcCookie
       /\ selectors(c)[2] = c.CookieName

\* New passing the key to csrfFromHeader as written, not in canonical form
NewExtractorRawKey(c) ==
    LET sel == selectors(c) IN
    CASE sel[1] = SrcForm   -> [source |-> "form",   param |-> sel[2]]
      [] sel[1] = SrcQuery  -> [source |-> "query",  param |-> sel[2]]
      [] sel[1] = SrcParam  -> [source |-> "param",  param |-> sel[2]]
      [] sel[1] = SrcCookie -> [source |-> "cookie", param |-> sel[2]]
      [] OTHER -> [source |-> "header", param |-> sel[2]]

\* the extractor New builds: header on the canonical key unless the first
\* selector names one of the four other sources
NewExtractor(c) ==
    LET sel == selectors(c) IN
    CASE sel[1] = SrcForm   -> [source |-> "form",   param |-> sel[2]]
      [] sel[1] = SrcQuery  -> [source |-> "query",  param |-> sel[2]]
      [] sel[1] = SrcParam  -> [source |-> "param",  param |-> sel[2]]
      [] sel[1] = SrcCookie -> [source |-> "cookie", param |-> sel[2]]
      [] OTHER -> [source |-> "header",
                   param  |-> CanonicalMIMEHeaderKey(sel[2])]

NoExtractor == [source |-> "", param |-> <<>>]

(***************************************************************************)
(* Extractors                                                              *)
(***************************************************************************)
Extracted(token, missing) ==
    IF token = "" THEN [token |-> "", err |-> missing]
    ELSE [token |-> token, err |-> "nil"]

csrfFromHeader(param, r) == Extracted(Lookup(r.header, param), "errMissingHeader")
csrfFromQuery(param, r)  == Extracted(Lookup(r.query, param), "errMissingQuery")
\* csrfFromParam reading the query string instead of the route parameters
csrfFromParamReadsQuery(param, r) ==
    Extracted(Lookup(r.query, param), "errMissingParam")

csrfFromParam(param, r)  == Extracted(Lookup(r.params, param), "errMissingParam")
csrfFromForm(param, r)   == Extracted(Lookup(r.form, param), "errMissingForm")
csrfFromCookie(param, r) == Extracted(Lookup(r.cookies, param), "errMissingCookie")

\* extractor(c): the closure New selected, applied to the request
Extract(ex, r) ==
    CASE ex.source = "form"   -> csrfFromForm(ex.param, r)
      [] ex.source = "query"  -> csrfFromQuery(ex.param, r)
      [] ex.source = "param"  -> csrfFromParam(ex.param, r)
      [] ex.source = "cookie" -> csrfFromCookie(ex.param, r)
      [] OTHER                -> csrfFromHeader(ex.param, r)

(***************************************************************************)
(* The handler                                                             *)
(***************************************************************************)
\* cfg.Next(c): the route-exempting predicate
NextPredicate(c, r) == c.Next = "exemptRoute" /\ r.path = "/exempt"

\* a handler that never consults cfg.Next
BypassNever(c, r) == FALSE

\* if cfg.Next != nil && cfg.Next(c)
Bypass(c, r) == c.Next # "nil" /\ NextPredicate(c, r)

\* the result of a handler run: the store, the generator's call count and
\* the response
Result(s, n, rs) == [store |-> s, issued |-> n, resp |-> rs]

\* return c.Next() of the bypass: nothing else is done
Skip(s, n) == Result(s, n, [NoResponse EXCEPT !.next = TRUE])

\* the tail of the handler without c.Vary
ContinueNoVary(c, s, n, rs, token) ==
    Result(s, n,
           [rs EXCEPT !.locals = IF c.ContextKey # ""
                                 THEN {<<c.ContextKey, token>>} ELSE @,
                      !.next = TRUE])

\* the tail of the handler without c.Locals
ContinueNoLocals(c, s, n, rs, token) ==
    Result(s, n, [rs EXCEPT !.vary = @ \cup {HeaderCookie}, !.next = TRUE])

\* after the switch: c.Vary, c.Locals when ContextKey is set, c.Next()
Continue(c, s, n, rs, token) ==
    Result(s, n,
           [rs EXCEPT !.vary = @ \cup {HeaderCookie},
                      !.locals = IF c.ContextKey # ""
                                 THEN {<<c.ContextKey, token>>} ELSE @,
                      !.next = TRUE])

\* a rejection that falls through to c.Next() and still reports the error
ForbiddenFallsThrough(s, n, rs) ==
    Result(s, n, [rs EXCEPT !.err = ErrForbidden, !.next = TRUE])

\* return fiber.ErrForbidden
Forbidden(s, n, rs) == Result(s, n, [rs EXCEPT !.err = ErrForbidden])

\* the GET branch without store.set(token)
IssueWithoutSet(c, s, n, r) ==
    LET old   == Lookup(r.cookies, c.CookieName)
        fresh == old = ""
        token == IF fresh THEN KeyGenerator(n + 1) ELSE old
        n2    == IF fresh THEN n + 1 ELSE n
        rs    == [NoResponse EXCEPT
                    !.cookies = {Cookie(c.CookieName, token, "future")}]
    IN  Continue(c, s, n2, rs, token)

\* the GET branch ignoring the incoming cookie: a token is always generated
IssueAlwaysFresh(c, s, n, r) ==
    LET token == KeyGenerator(n + 1)
        rs    == [NoResponse EXCEPT
                    !.cookies = {Cookie(c.CookieName, token, "future")}]
    IN  Continue(c, set(s, token), n + 1, rs, token)

\* the GET branch registering the token also when it came from the cookie
IssueAlwaysSet(c, s, n, r) ==
    LET old   == Lookup(r.cookies, c.CookieName)
        fresh == old = ""
        token == IF fresh THEN KeyGenerator(n + 1) ELSE old
        n2    == IF fresh THEN n + 1 ELSE n
        rs    == [NoResponse EXCEPT
                    !.cookies = {Cookie(c.CookieName, token, "future")}]
    IN  Continue(c, set(s, token), n2, rs, token)

\* case fiber.MethodGet
Issue(c, s, n, r) ==
    LET old   == Lookup(r.cookies, c.CookieName)
        fresh == old = ""
        token == IF fresh THEN KeyGenerator(n + 1) ELSE old
        s2    == IF fresh THEN set(s, token) ELSE s
        n2    == IF fresh THEN n + 1 ELSE n
        rs    == [NoResponse EXCEPT
                    !.cookies = {Cookie(c.CookieName, token, "future")}]
    IN  Continue(c, s2, n2, rs, token)

\* the verify branch without the test of the extractor's error
VerifyIgnoresErr(c, ex, s, n, r) ==
    LET x == Extract(ex, r) IN
    IF get(s, x.token)
    THEN Forbidden(delete(s, x.token), n,
                   [NoResponse EXCEPT
                      !.cookies = {Cookie(c.CookieName, "", "past")}])
    ELSE Continue(c, s, n, NoResponse, x.token)

\* the verify branch without the expired cookie on a store rejection
VerifyWithoutExpire(c, ex, s, n, r) ==
    LET x == Extract(ex, r) IN
    IF x.err # "nil"
    THEN Forbidden(s, n, NoResponse)
    ELSE IF get(s, x.token)
         THEN Forbidden(delete(s, x.token), n, NoResponse)
         ELSE Continue(c, s, n, NoResponse, x.token)

\* a verify branch that also requires the token to equal the CSRF cookie
VerifyComparesCookie(c, ex, s, n, r) ==
    LET x == Extract(ex, r) IN
    IF x.err # "nil"
    THEN Forbidden(s, n, NoResponse)
    ELSE IF get(s, x.token) \/ x.token # Lookup(r.cookies, c.CookieName)
         THEN Forbidden(delete(s, x.token), n,
                        [NoResponse EXCEPT
                           !.cookies = {Cookie(c.CookieName, "", "past")}])
         ELSE Continue(c, s, n, NoResponse, x.token)

\* the verify branch without store.delete(token) on a store rejection
VerifyWithoutDelete(c, ex, s, n, r) ==
    LET x == Extract(ex, r) IN
    IF x.err # "nil"
    THEN Forbidden(s, n, NoResponse)
    ELSE IF get(s, x.token)
         THEN Forbidden(s, n,
                        [NoResponse EXCEPT
                           !.cookies = {Cookie(c.CookieName, "", "past")}])
         ELSE Continue(c, s, n, NoResponse, x.token)

\* case fiber.MethodPost, fiber.MethodDelete, fiber.MethodPatch, fiber.MethodPut
Verify(c, ex, s, n, r) ==
    LET x == Extract(ex, r) IN
    IF x.err # "nil"
    THEN Forbidden(s, n, NoResponse)
    ELSE IF get(s, x.token)
         THEN Forbidden(delete(s, x.token), n,
                        [NoResponse EXCEPT
                           !.cookies = {Cookie(c.CookieName, "", "past")}])
         ELSE Continue(c, s, n, NoResponse, x.token)

\* a handler that verifies every method but GET
HandlerVerifiesOthers(c, ex, s, n, r) ==
    IF Bypass(c, r) THEN Skip(s, n)
    ELSE IF r.method = MethodGet THEN Issue(c, s, n, r)
    ELSE Verify(c, ex, s, n, r)

\* the handler New returns
Handler(c, ex, s, n, r) ==
    IF Bypass(c, r) THEN Skip(s, n)
    ELSE IF r.method = MethodGet THEN Issue(c, s, n, r)
    ELSE IF r.method \in UnsafeMethods THEN Verify(c, ex, s, n, r)
    ELSE Continue(c, s, n, NoResponse, "")

\* the handler run calls cfg.KeyGenerator()
Generates(c, r) ==
    ~Bypass(c, r) /\ r.method = MethodGet /\ Lookup(r.cookies, c.CookieName) = ""

(***************************************************************************)
(* A client that keeps the CSRF cookie                                     *)
(***************************************************************************)
\* the client's cookie jar (the CSRF cookie it holds, "" for none) and where
\* it stands after a store rejection: "rejected" once told to drop the
\* cookie, "recovered" once its next GET has been given a new token
NoClient == [jar |-> "", stage |-> "fresh"]

\* the jar after a response: a Set-Cookie with a past expiry drops the
\* cookie, any other Set-Cookie replaces it
JarAfter(jar, rs) ==
    IF rs.cookies = {} THEN jar
    ELSE LET ck == CHOOSE ck \in rs.cookies : TRUE
         IN  IF ck.expires = "past" THEN "" ELSE ck.value

StageAfter(stage, c, r, rs) ==
    IF rs.err = ErrForbidden /\ rs.cookies # {} THEN "rejected"
    ELSE IF stage = "rejected" /\ Generates(c, r) THEN "recovered"
    ELSE stage

(***************************************************************************)
(* Requests in flight at the same time                                     *)
(***************************************************************************)
\* two handler runs may overlap; each is a record of the request, the local
\* variable token, the response so far and the place the run has reached:
\* "start" (entered), "set" (token generated, store.set pending), "hit" or
\* "miss" (store.get returned, the rest of the verify case pending), "done"
Procs == {"a", "b"}

NoThread == [pc |-> "idle", req |-> NoRequest, token |-> "", resp |-> NoResponse]

\* a token generated once for the handler instead of once per request
TokenPerInstance(n) == KeyGenerator(1)

\* token = cfg.KeyGenerator(), the (n+1)-th call
NewToken(n) == KeyGenerator(n + 1)

(***************************************************************************)
(* State machine                                                           *)
(***************************************************************************)
Init ==
    /\ cfg \in Configs
    /\ phase = "init"
    /\ extractor = NoExtractor
    /\ store = {}
    /\ issued = 0
    /\ req = NoRequest
    /\ resp = NoResponse
    /\ client = NoClient
    /\ threads = [p \in Procs |-> NoThread]

\* New(config): panic, or build the extractor and return the handler
New ==
    /\ phase = "init"
    /\ IF NewPanics(cfg)
       THEN phase' = "panicked" /\ extractor' = extractor
       ELSE phase' = "idle" /\ extractor' = NewExtractor(cfg)
    /\ UNCHANGED <<cfg, store, issued, req, resp, client, threads>>

\* one request runs through the handler
Serve ==
    /\ phase = "idle"
    /\ \E method \in Methods, path \in Paths, cookie \in ClientValues,
          src \in Sources, value \in ClientValues :
          LET r   == Request(method, path, cookie, src, selectors(cfg)[2], value)
              out == Handler(cfg, extractor, store, issued, r)
          IN  /\ Generates(cfg, r) => issued < MaxIssued
              /\ req' = r
              /\ store' = out.store
              /\ issued' = out.issued
              /\ resp' = out.resp
    /\ phase' = "done"
    /\ UNCHANGED <<cfg, extractor, client, threads>>

\* the response is sent and the request context released
Release ==
    /\ phase = "done"
    /\ phase' = "idle"
    /\ req' = NoRequest
    /\ resp' = NoResponse
    /\ UNCHANGED <<cfg, extractor, store, issued, client, threads>>

\* a stored token reaches the end of its time to live
Expire ==
    /\ phase = "idle"
    /\ \E token \in store : store' = delete(store, token)
    /\ UNCHANGED <<cfg, phase, extractor, issued, req, resp, client, threads>>

\* one request of the cookie-keeping client runs through the handler: it
\* carries the cookie of the jar, and the response updates the jar
ClientServe ==
    /\ phase = "idle"
    /\ \E method \in Methods, path \in Paths,
          src \in Sources, value \in ClientValues :
          LET r   == Request(method, path, client.jar, src,
                             selectors(cfg)[2], value)
              out == Handler(cfg, extractor, store, issued, r)
          IN  /\ Generates(cfg, r) => issued < MaxIssued
              /\ req' = r
              /\ store' = out.store
              /\ issued' = out.issued
              /\ resp' = out.resp
              /\ client' = [jar   |-> JarAfter(client.jar, out.resp),
                            stage |-> StageAfter(client.stage, cfg, r, out.resp)]
    /\ phase' = "done"
    /\ UNCHANGED <<cfg, extractor, threads>>

\* the client's cookie reaches its expiry; the cookie is sent with
\* Expires = now + cfg.Expiration at issue or later, so the token's own time
\* to live has ended by then
JarExpire ==
    /\ phase = "idle"
    /\ client.jar # ""
    /\ client.jar \notin store
    /\ client' = [client EXCEPT !.jar = ""]
    /\ UNCHANGED <<cfg, phase, extractor, store, issued, req, resp, threads>>

Next == New \/ Serve \/ Release \/ Expire

Spec == Init /\ [][Next]_vars

\* the middleware serving one client that keeps its cookie
NextClient == New \/ ClientServe \/ Release \/ Expire \/ JarExpire

SpecClient == Init /\ [][NextClient]_vars

\* a request enters the handler in the run p
ThreadBegin(p) ==
    /\ phase = "idle"
    /\ threads[p].pc = "idle"
    /\ \E method \in {MethodGet, MethodPost}, path \in Paths,
          value \in ClientValues :
          threads' = [threads EXCEPT ![p] =
              [NoThread EXCEPT
                 !.pc = "start",
                 !.req = Request(method, path, "", extractor.source,
                                 selectors(cfg)[2], value)]]
    /\ UNCHANGED <<cfg, phase, extractor, store, issued, req, resp, client>>

\* the run p up to its first call on shared state: the bypass, the switch,
\* and then cfg.KeyGenerator() (GET) or extractor(c) and store.get (verify)
ThreadSwitch(p) ==
    LET t == threads[p]
        r == t.req
        x == Extract(extractor, r)
        old == Lookup(r.cookies, cfg.CookieName)
        finish(out, token) ==
            /\ threads' = [threads EXCEPT ![p] =
                  [t EXCEPT !.pc = "done", !.token = token, !.resp = out.resp]]
            /\ UNCHANGED issued
    IN
    /\ t.pc = "start"
    /\ IF Bypass(cfg, r) THEN finish(Skip(store, issued), "")
       ELSE IF r.method = MethodGet /\ old = ""
       THEN /\ issued < MaxIssued
            /\ issued' = issued + 1
            /\ threads' = [threads EXCEPT ![p] =
                  [t EXCEPT !.pc = "set", !.token = NewToken(issued)]]
       ELSE IF r.method = MethodGet
       THEN finish(Continue(cfg, store, issued,
                      [NoResponse EXCEPT
                         !.cookies = {Cookie(cfg.CookieName, old, "future")}],
                      old), old)
       ELSE IF r.method \in UnsafeMethods /\ x.err # "nil"
       THEN finish(Forbidden(store, issued, NoResponse), "")
       ELSE IF r.method \in UnsafeMethods
       THEN /\ threads' = [threads EXCEPT ![p] =
                  [t EXCEPT !.pc = IF get(store, x.token) THEN "hit" ELSE "miss",
                            !.token = x.token]]
            /\ UNCHANGED issued
       ELSE finish(Continue(cfg, store, issued, NoResponse, ""), "")
    /\ UNCHANGED <<cfg, phase, extractor, store, req, resp, client>>

\* store.set(token) of the run p, then the cookie and the tail of the handler
ThreadSet(p) ==
    LET t == threads[p] IN
    /\ t.pc = "set"
    /\ store' = set(store, t.token)
    /\ threads' = [threads EXCEPT ![p] =
          [t EXCEPT !.pc = "done",
                    !.resp = Continue(cfg, store, issued,
                                [NoResponse EXCEPT !.cookies =
                                   {Cookie(cfg.CookieName, t.token, "future")}],
                                t.token).resp]]
    /\ UNCHANGED <<cfg, phase, extractor, issued, req, resp, client>>

\* the rest of the verify case of the run p after store.get returned
ThreadVerdict(p) ==
    LET t == threads[p] IN
    /\ t.pc \in {"hit", "miss"}
    /\ IF t.pc = "hit"
       THEN /\ store' = delete(store, t.token)
            /\ threads' = [threads EXCEPT ![p] =
                  [t EXCEPT !.pc = "done",
                            !.resp = Forbidden(store, issued,
                                        [NoResponse EXCEPT !.cookies =
                                           {Cookie(cfg.CookieName, "", "past")}]).resp]]
       ELSE /\ store' = store
            /\ threads' = [threads EXCEPT ![p] =
                  [t EXCEPT !.pc = "done",
                            !.resp = Continue(cfg, store, issued, NoResponse,
                                              t.token).resp]]
    /\ UNCHANGED <<cfg, phase, extractor, issued, req, resp, client>>

\* the response of the run p is sent and its context released
ThreadRelease(p) ==
    /\ threads[p].pc = "done"
    /\ threads' = [threads EXCEPT ![p] = NoThread]
    /\ UNCHANGED <<cfg, phase, extractor, store, issued, req, resp, client>>

\* the middleware serving overlapping requests
NextConc ==
    \/ New
    \/ Expire
    \/ \E p \in Procs : ThreadBegin(p)
    \/ \E p \in Procs : ThreadSwitch(p)
    \/ \E p \in Procs : ThreadSet(p)
    \/ \E p \in Procs : ThreadVerdict(p)
    \/ \E p \in Procs : ThreadRelease(p)

SpecConc == Init /\ [][NextConc]_vars

TypeOK ==
    /\ cfg \in Configs
    /\ phase \in {"init", "panicked", "idle", "done"}
    /\ store \subseteq {KeyGenerator(n) : n \in 1..MaxIssued}
    /\ issued \in 0..MaxIssued
    /\ resp.err \in {"nil", ErrForbidden}
    /\ resp.next \in BOOLEAN

(***************************************************************************)
(* Properties                                                              *)
(***************************************************************************)
\* the handler has just run on req
Done == phase = "done"

\* the step in which the handler runs on req'
Served == phase = "idle" /\ phase' = "done"

\* the request was not skipped by the bypass predicate
Handled(r) == ~(cfg.Next # "nil" /\ NextPredicate(cfg, r))

\* the response carries the Set-Cookie that makes the client drop the cookie
Expired(rs) == Cookie(cfg.CookieName, "", "past") \in rs.cookies

\* C1: an unsafe-method request whose extracted token is in the store
\* continues to the next handler without a 403, and the store is left as it
\* was, so the same request continues again.
C1_StoredTokenContinues ==
    [][(/\ Served
        /\ Handled(req')
        /\ req'.method \in UnsafeMethods
        /\ Extract(extractor, req').token \in store)
       => (/\ resp'.err = "nil"
           /\ resp'.next
           /\ store' = store)]_vars

\* C2: an unsafe-method request whose extracted token is not in the store is
\* rejected with 403, and the store does not hold the token afterwards.
C2_UnknownTokenRejected ==
    [][(/\ Served
        /\ Handled(req')
        /\ req'.method \in UnsafeMethods
        /\ Extract(extractor, req').err = "nil"
        /\ Extract(extractor, req').token \notin store)
       => (/\ resp'.err = ErrForbidden
           /\ Extract(extractor, req').token \notin store')]_vars

\* C3: a GET without CSRF cookie gets a newly generated token, which is
\* added to the store and sent in the outgoing CSRF cookie; the store holds
\* it right after the request.
C3_GetIssuesToken ==
    [][(/\ Served
        /\ Handled(req')
        /\ req'.method = MethodGet
        /\ Lookup(req'.cookies, cfg.CookieName) = "")
       => (LET token == KeyGenerator(issued + 1) IN
           /\ token # ""
           /\ token \notin store
           /\ store' = store \cup {token}
           /\ resp'.cookies = {Cookie(cfg.CookieName, token, "future")}
           /\ resp'.err = "nil"
           /\ token \in store')]_vars

C3_Witness ==
    /\ Done
    /\ Handled(req)
    /\ req.method = MethodGet
    /\ Lookup(req.cookies, cfg.CookieName) = ""
    /\ \E ck \in resp.cookies :
          ck.value # "" /\ ck.value \in store /\ ck.expires = "future"

\* C4: once a token has been issued and is still stored, an unsafe-method
\* request that submits it proceeds, and an unsafe-method request that submits
\* a value that was never issued is rejected with 403 and an expired cookie.
C4_IssueThenVerify ==
    [][(/\ Served
        /\ Handled(req')
        /\ req'.method \in UnsafeMethods
        /\ issued > 0)
       => (LET token == Extract(extractor, req').token IN
           /\ token \in store => resp'.next /\ resp'.err = "nil"
           /\ token = "WRONG" => resp'.err = ErrForbidden /\ Expired(resp'))]_vars

\* C5: when the extractor finds no token on an unsafe-method request, the
\* request is rejected with 403 and the store is left unchanged.
C5_ExtractionFailureRejects ==
    [][(/\ Served
        /\ Handled(req')
        /\ req'.method \in UnsafeMethods
        /\ Extract(extractor, req').err # "nil")
       => (/\ resp'.err = ErrForbidden
           /\ store' = store)]_vars

C5_Witness ==
    /\ Done
    /\ Handled(req)
    /\ req.method \in UnsafeMethods
    /\ Extract(extractor, req).err # "nil"
    /\ resp.err = ErrForbidden
    /\ store # {}

\* C6: a request answered with 403 never reaches the next handler.
C6_RejectionIsTerminal == (Done /\ resp.err = ErrForbidden) => ~resp.next

C6_Witness ==
    /\ Done
    /\ resp.err = ErrForbidden
    /\ ~resp.next
    /\ Extract(extractor, req).err = "nil"

\* C7 as stated: every request that is not bypassed carries Vary: Cookie,
\* rejected ones included.
C7_VaryOnEveryHandled == (Done /\ Handled(req)) => HeaderCookie \in resp.vary

\* C7: every request that is not bypassed and continues to the next handler
\* carries Vary: Cookie.
C7_VaryOnContinue ==
    (Done /\ Handled(req) /\ resp.next) => HeaderCookie \in resp.vary

C7_Witness ==
    /\ Done
    /\ Handled(req)
    /\ req.method \in UnsafeMethods
    /\ resp.next
    /\ HeaderCookie \in resp.vary

\* C8 as stated: every rejected unsafe-method request carries the expired
\* CSRF cookie.
C8_ExpiredOnEveryRejection ==
    (Done /\ req.method \in UnsafeMethods /\ resp.err = ErrForbidden)
        => Expired(resp)

\* C8: every unsafe-method request that is rejected after its token was
\* extracted carries the expired CSRF cookie, with no value, and no other.
C8_ExpiredOnStoreRejection ==
    (/\ Done
     /\ req.method \in UnsafeMethods
     /\ resp.err = ErrForbidden
     /\ Extract(extractor, req).err = "nil")
        => resp.cookies = {Cookie(cfg.CookieName, "", "past")}

C8_Witness ==
    /\ Done
    /\ req.method \in UnsafeMethods
    /\ resp.err = ErrForbidden
    /\ Extract(extractor, req).err = "nil"
    /\ Expired(resp)

\* C9: a request for which the bypass predicate returns true goes to the next
\* handler, whatever its method, with the store, the generator and the
\* response (cookies, Vary, Locals) untouched.
C9_BypassSkipsEverything ==
    [][(/\ Served
        /\ cfg.Next # "nil"
        /\ NextPredicate(cfg, req'))
       => (/\ resp' = [NoResponse EXCEPT !.next = TRUE]
           /\ store' = store
           /\ issued' = issued)]_vars

C9_Witness ==
    /\ Done
    /\ cfg.Next # "nil"
    /\ NextPredicate(cfg, req)
    /\ req.method \in UnsafeMethods
    /\ Extract(extractor, req).token \in store
    /\ resp.next

\* the number of colons of a string
RECURSIVE Colons(_)
Colons(s) ==
    IF s = <<>> THEN 0
    ELSE (IF Head(s) = ":" THEN 1 ELSE 0) + Colons(Tail(s))

\* C10: New panics exactly when KeyLookup does not have one colon or is
\* "cookie:" followed by CookieName; otherwise it returns a handler, and no
\* later request ends in that failure.
C10_ConfigErrorsAtInit ==
    phase # "init" =>
        (phase = "panicked" <=>
            \/ Colons(cfg.KeyLookup) # 1
            \/ cfg.KeyLookup = SrcCookie \o <<":">> \o cfg.CookieName)

C10_Witness ==
    /\ phase = "panicked"
    /\ cfg.KeyLookup = SrcCookie \o <<":">> \o cfg.CookieName

\* the value a request carries in the location `source` (the CSRF cookie
\* itself is not a submission)
Submitted(r, source) ==
    LET m == CASE source = "header" -> r.header
               [] source = "query"  -> r.query
               [] source = "param"  -> r.params
               [] source = "form"   -> r.form
               [] OTHER -> {p \in r.cookies : p[1] # cfg.CookieName}
    IN  IF m = {} THEN "" ELSE (CHOOSE p \in m : TRUE)[2]

MissingError(source) ==
    CASE source = "header" -> "errMissingHeader"
      [] source = "query"  -> "errMissingQuery"
      [] source = "param"  -> "errMissingParam"
      [] source = "form"   -> "errMissingForm"
      [] OTHER             -> "errMissingCookie"

C12_GetReusesCookie ==
    [][(/\ Served
        /\ Handled(req')
        /\ req'.method = MethodGet
        /\ Lookup(req'.cookies, cfg.CookieName) # "")
       => (/\ store' = store
           /\ issued' = issued
           /\ resp'.cookies =
                {Cookie(cfg.CookieName,
                        Lookup(req'.cookies, cfg.CookieName), "future")}
           /\ resp'.err = "nil"
           /\ resp'.next)]_vars

C12_Witness ==
    /\ Done
    /\ Handled(req)
    /\ req.method = MethodGet
    /\ Lookup(req.cookies, cfg.CookieName) = "WRONG"
    /\ store # {}
    /\ resp.cookies = {Cookie(cfg.CookieName, "WRONG", "future")}

\* the part of a string before its first colon, and the part after it
RECURSIVE BeforeColon(_)
BeforeColon(s) ==
    IF s = <<>> \/ Head(s) = ":" THEN <<>>
    ELSE <<Head(s)>> \o BeforeColon(Tail(s))

AfterColon(s) == SubSeq(s, Len(BeforeColon(s)) + 2, Len(s))

\* C16: for "<source>:<key>", the sources form, query, param and cookie
\* select their own extractor on <key>; any other first part, the empty one
\* included, selects the header extractor on the canonical form of <key>
\* (x-k becomes X-K, X-CSRF becomes X-Csrf), and New does not panic.
C16_ExtractorSelection ==
    (/\ phase # "init"
     /\ Colons(cfg.KeyLookup) = 1
     /\ cfg.KeyLookup # SrcCookie \o <<":">> \o cfg.CookieName)
    => LET source == BeforeColon(cfg.KeyLookup)
           key    == AfterColon(cfg.KeyLookup)
       IN  /\ phase # "panicked"
           /\ source = SrcForm   => extractor = [source |-> "form", param |-> key]
           /\ source = SrcQuery  => extractor = [source |-> "query", param |-> key]
           /\ source = SrcParam  => extractor = [source |-> "param", param |-> key]
           /\ source = SrcCookie => extractor = [source |-> "cookie", param |-> key]
           /\ source \notin {SrcForm, SrcQuery, SrcParam, SrcCookie} =>
                /\ extractor.source = "header"
                /\ key = <<"x","-","k">> => extractor.param = <<"X","-","K">>
                /\ key = <<"k">> => extractor.param = <<"K">>
                /\ key = <<"X","-","C","S","R","F">> =>
                       extractor.param = <<"X","-","C","s","r","f">>

C16_Witness ==
    /\ phase = "idle"
    /\ BeforeColon(cfg.KeyLookup) = <<"b","o","d","y">>
    /\ extractor = [source |-> "header", param |-> <<"X","-","K">>]

\* what c.Locals holds under ContextKey after the handler, if anything
SlotHolds(rs, token) == rs.locals = {<<cfg.ContextKey, token>>}

\* C17 as stated: with ContextKey set, every request that continues to the
\* next handler has the token in the slot (the cookie's token on GET, the
\* extracted one on an unsafe method), and a rejected request has no slot.
C17_SlotOnEveryContinue ==
    (Done /\ cfg.ContextKey # "") =>
        /\ (resp.next /\ req.method = MethodGet) =>
              \E ck \in resp.cookies : SlotHolds(resp, ck.value)
        /\ (resp.next /\ req.method \in UnsafeMethods) =>
              SlotHolds(resp, Extract(extractor, req).token)
        /\ resp.err = ErrForbidden => resp.locals = {}

\* C17: with ContextKey set, every request that is not bypassed and
\* continues to the next handler has the token in the slot: the token of the
\* outgoing cookie on GET, the extracted token on an unsafe method, the empty
\* string on any other method; a rejected or bypassed request has no slot.
C17_SlotOnHandledContinue ==
    (Done /\ cfg.ContextKey # "") =>
        /\ (Handled(req) /\ resp.next /\ req.method = MethodGet) =>
              /\ Cardinality(resp.cookies) = 1
              /\ \E ck \in resp.cookies :
                    ck.name = cfg.CookieName /\ SlotHolds(resp, ck.value)
        /\ (Handled(req) /\ resp.next /\ req.method \in UnsafeMethods) =>
              SlotHolds(resp, Extract(extractor, req).token)
        /\ (Handled(req) /\ resp.next
               /\ req.method \notin UnsafeMethods \cup {MethodGet}) =>
              SlotHolds(resp, "")
        /\ (resp.err = ErrForbidden \/ ~Handled(req)) => resp.locals = {}

C17_Witness ==
    /\ Done
    /\ cfg.ContextKey # ""
    /\ Handled(req)
    /\ req.method \in UnsafeMethods
    /\ resp.next
    /\ Extract(extractor, req).token # ""
    /\ SlotHolds(resp, Extract(extractor, req).token)

\* C18: a request whose method is none of GET, POST, PUT, PATCH, DELETE
\* always continues, leaves the store and the generator alone, gets no CSRF
\* cookie, and exposes the empty string under ContextKey when that is set.
C18_OtherMethodsPassThrough ==
    [][(/\ Served
        /\ req'.method \notin UnsafeMethods \cup {MethodGet})
       => (/\ resp'.next
           /\ resp'.err = "nil"
           /\ store' = store
           /\ issued' = issued
           /\ resp'.cookies = {}
           /\ (Handled(req') /\ cfg.ContextKey # "")
                 => resp'.locals = {<<cfg.ContextKey, "">>})]_vars

C18_Witness ==
    /\ Done
    /\ Handled(req)
    /\ req.method = MethodHead
    /\ cfg.ContextKey # ""
    /\ Extract(extractor, req).token \in store
    /\ resp.next
    /\ resp.locals = {<<cfg.ContextKey, "">>}

\* the request was a GET without CSRF cookie that the handler did not bypass
IssuingRequest(r) ==
    Handled(r) /\ r.method = MethodGet /\ Lookup(r.cookies, cfg.CookieName) = ""

\* C19: the store only ever holds tokens the generator returned, each added
\* by a GET that carried no CSRF cookie; no other request adds an entry and
\* no value sent by a client is stored.
C19_StoreHoldsGeneratedOnly ==
    [][/\ store' \subseteq {KeyGenerator(n) : n \in 1..issued'}
       /\ store' \ store # {} =>
             /\ Served
             /\ IssuingRequest(req')
             /\ store' \ store = {KeyGenerator(issued + 1)}
             /\ issued' = issued + 1]_vars

C19_Witness ==
    /\ Done
    /\ Handled(req)
    /\ req.method \in UnsafeMethods
    /\ Lookup(req.cookies, cfg.CookieName) = "WRONG"
    /\ Submitted(req, extractor.source) = "WRONG"
    /\ issued = 1
    /\ store = {KeyGenerator(1)}
    /\ resp.next

\* the request r carrying the CSRF cookie value instead of its own
WithCookie(r, value) ==
    [r EXCEPT !.cookies = {p \in @ : p[1] # cfg.CookieName}
                          \cup Entry(cfg.CookieName, value)]

\* C20: with an extractor that is not cookie-based, an unsafe-method request
\* has the same outcome (error, next handler, response cookies, store)
\* whatever CSRF cookie it carries: none, the submitted token, or another.
C20_CookieIrrelevantOnVerify ==
    [][(/\ Served
        /\ req'.method \in UnsafeMethods
        /\ extractor.source # "cookie")
       => \A value \in ClientValues :
             Handler(cfg, extractor, store, issued, WithCookie(req', value))
                 = Result(store', issued', resp')]_vars

C20_Witness ==
    /\ Done
    /\ Handled(req)
    /\ req.method \in UnsafeMethods
    /\ extractor.source # "cookie"
    /\ Extract(extractor, req).token # ""
    /\ Lookup(req.cookies, cfg.CookieName)
          \notin {"", Extract(extractor, req).token}
    /\ resp.next

\* C13: with one client that sends back the cookie last set for it and drops
\* it when told to or when it expires, the store never holds more than one
\* of the tokens issued to it: when a GET issues a new token, no older token
\* is left in the store.
C13_OneValidTokenPerClient ==
    [][/\ Cardinality(store') <= 1
       /\ (Served /\ IssuingRequest(req')) =>
             /\ client'.jar = KeyGenerator(issued + 1)
             /\ store' = {client'.jar}]_vars

C13_Witness ==
    /\ Done
    /\ IssuingRequest(req)
    /\ client.stage = "recovered"
    /\ issued = 2
    /\ store = {KeyGenerator(2)}
    /\ client.jar = KeyGenerator(2)

\* C15: after a store rejection has made the client drop its cookie, its
\* next GET is given a new token that the store holds, and an unsafe-method
\* request that then submits this token, while the store still holds it,
\* continues to the next handler.
C15_ClientRecovers ==
    [][/\ (Served /\ client.stage = "rejected" /\ IssuingRequest(req')) =>
             /\ client'.stage = "recovered"
             /\ client'.jar # ""
             /\ client'.jar \in store'
       /\ (/\ Served
           /\ client.stage = "recovered"
           /\ Handled(req')
           /\ req'.method \in UnsafeMethods
           /\ client.jar \in store
           /\ Extract(extractor, req').token = client.jar) =>
             /\ resp'.err = "nil"
             /\ resp'.next]_vars

\* the run p serves a GET without CSRF cookie that is not bypassed
Issuing(t) == t.pc # "idle" /\ IssuingRequest(t.req)

\* C14: when GET requests without CSRF cookie overlap in any order, each one
\* succeeds with its own token in its cookie, the tokens differ, store.set of
\* one adds its token and removes nothing, and a later delete or expiry
\* removes one token and leaves the others in the store.
C14_ConcurrentIssueIndependent ==
    [][/\ \A p \in Procs :
             (Issuing(threads'[p]) /\ threads'[p].pc = "done") =>
                /\ threads'[p].resp.err = "nil"
                /\ threads'[p].resp.next
                /\ threads'[p].resp.cookies =
                      {Cookie(cfg.CookieName, threads'[p].token, "future")}
       /\ \A p, q \in Procs :
             (/\ p # q
              /\ Issuing(threads'[p]) /\ threads'[p].pc \in {"set", "done"}
              /\ Issuing(threads'[q]) /\ threads'[q].pc \in {"set", "done"})
             => threads'[p].token # threads'[q].token
       /\ \A p \in Procs :
             (threads[p].pc = "set" /\ threads'[p].pc = "done") =>
                store' = store \cup {threads[p].token}
       /\ \A p \in Procs :
             (threads[p].pc = "hit" /\ threads'[p].pc = "done") =>
                store' = store \ {threads[p].token}
       /\ Cardinality(store \ store') <= 1]_vars

C14_Witness ==
    /\ \A p \in Procs : Issuing(threads[p]) /\ threads[p].pc = "done"
    /\ \A p \in Procs : threads[p].token \in store
    /\ threads["a"].token # threads["b"].token
    /\ threads["a"].token = KeyGenerator(2)

====
